---------------------------- MODULE Spec2Model ----------------------------
(***************************************************************************)
(* Duplicate detection and merge of client records                         *)
(* (src/src/DuplicateManagement.tsx).                                      *)
(*                                                                         *)
(* Storage is the two tables the component talks to through the supabase   *)
(* client: `clients` (id -> row) and `interactions` (id -> client_id).     *)
(* Every storage call is one step that either fails and changes nothing    *)
(* (the call returns an error) or succeeds and applies its filter:         *)
(* an update or delete whose .eq() filter matches no row succeeds and      *)
(* changes nothing.  The tables are plain tables: the component's calls    *)
(* are the only thing that keeps interactions.client_id pointing at a row  *)
(* of clients.                                                             *)
(*                                                                         *)
(* Strings that the code inspects character by character (names, aka) are  *)
(* sequences of one-character strings; fields that are only compared and   *)
(* tested for truthiness (age, gender, ethnicity, height) are strings.     *)
(***************************************************************************)
EXTENDS Integers, Sequences, FiniteSets, TLC

(***************************************************************************)
(* Bounds of the model.                                                    *)
(***************************************************************************)
NumClients == 3
NumSessions == 2

ClientIds == 1..NumClients
\* One interaction for every client but the one created last.
ActIds == 1..(NumClients - 1)
Sessions == 1..NumSessions

\* useState<string>(''): no primary client chosen.
NoClient == 0
\* A contacts column holding null.
Null == 0 - 1

(***************************************************************************)
(* JavaScript helpers.                                                     *)
(***************************************************************************)
UpperChars == <<"A","B","C","D","E","F","G","H","I","J","K","L","M",
                "N","O","P","Q","R","S","T","U","V","W","X","Y","Z">>
LowerChars == <<"a","b","c","d","e","f","g","h","i","j","k","l","m",
                "n","o","p","q","r","s","t","u","v","w","x","y","z">>

ToLowerChar(c) ==
  IF \E i \in 1..Len(UpperChars) : UpperChars[i] = c
    THEN LowerChars[CHOOSE i \in 1..Len(UpperChars) : UpperChars[i] = c]
    ELSE c

toLowerCase(str) == [i \in 1..Len(str) |-> ToLowerChar(str[i])]

IsSpace(c) == c = " "

RECURSIVE TrimStart(_)
TrimStart(str) ==
  IF str # <<>> /\ IsSpace(Head(str)) THEN TrimStart(Tail(str)) ELSE str

RECURSIVE TrimEnd(_)
TrimEnd(str) ==
  IF str # <<>> /\ IsSpace(str[Len(str)])
    THEN TrimEnd(SubSeq(str, 1, Len(str) - 1))
    ELSE str

trim(str) == TrimEnd(TrimStart(str))

\* `${first_name} ${last_name}`
FullName(client) == client.first_name \o <<" ">> \o client.last_name

\* An optional column that holds no string (aka?: string; null in the
\* table).
Undefined == <<"undefined">>

\* Mutant: only the empty string is taken as absent.
NotEmptyString(str) == str # <<>>

\* JavaScript truthiness of a string ('' and a missing value are falsy):
\* Truthy for a string kept as a character sequence, TruthyField for one
\* kept whole.
Truthy(str) == str # <<>> /\ str # Undefined
TruthyField(str) == str # ""

\* (x || 0) on a numeric column that may hold null.
OrZero(x) == IF x = Null THEN 0 ELSE x

Min2(a, b) == IF a < b THEN a ELSE b
\* Mutant: no floor, the second argument is returned.
SecondOf(a, b) == b
Max2(a, b) == IF a > b THEN a ELSE b
Abs(a) == IF a < 0 THEN 0 - a ELSE a

(***************************************************************************)
(* levenshteinDistance: the full matrix, one row per character of str2.    *)
(* A row is the sequence matrix[i][0..Len(str1)], stored at 1..Len(str1)+1.*)
(***************************************************************************)
\* Mutant: a substitution costs two.
RECURSIVE LevCellsSubstitutionCostsTwo(_, _, _, _)
LevCellsSubstitutionCostsTwo(prev, ch, str1, row) ==
  LET j == Len(row)
  IN IF j > Len(str1) THEN row
     ELSE LevCellsSubstitutionCostsTwo(prev, ch, str1,
            Append(row,
              IF ch = str1[j]
                THEN prev[j]
                ELSE Min2(prev[j] + 2, Min2(row[j] + 1, prev[j + 1] + 1))))

RECURSIVE LevCells(_, _, _, _)
LevCells(prev, ch, str1, row) ==
  LET j == Len(row)
  IN IF j > Len(str1) THEN row
     ELSE LevCells(prev, ch, str1,
            Append(row,
              IF ch = str1[j]
                THEN prev[j]
                ELSE Min2(prev[j] + 1, Min2(row[j] + 1, prev[j + 1] + 1))))

RECURSIVE LevRows(_, _, _, _)
LevRows(prev, str1, str2, i) ==
  IF i > Len(str2) THEN prev
  ELSE LevRows(LevCells(prev, str2[i], str1, <<i>>), str1, str2, i + 1)

levenshteinDistance(str1, str2) ==
  LevRows([j \in 1..(Len(str1) + 1) |-> j - 1], str1, str2, 1)[Len(str1) + 1]

(***************************************************************************)
(* calculateNameSimilarity returns the quotient (longer.length - distance) *)
(* / longer.length; the model keeps it as the pair <<numerator,            *)
(* denominator>>.  The only use is the comparison with 0.8, and for        *)
(* integers n, d the IEEE quotient n/d exceeds the literal 0.8 exactly     *)
(* when 5n > 4d.                                                           *)
(***************************************************************************)
\* Mutant: the quotient is taken over the length of the shorter string.
calculateNameSimilarityOverShorter(name1, name2) ==
  LET longer == IF Len(name1) > Len(name2) THEN name1 ELSE name2
      shorter == IF Len(name1) > Len(name2) THEN name2 ELSE name1
  IN IF Len(shorter) = 0 THEN <<1, 1>>
     ELSE <<Len(longer) - levenshteinDistance(longer, shorter), Len(shorter)>>

calculateNameSimilarity(name1, name2) ==
  LET longer == IF Len(name1) > Len(name2) THEN name1 ELSE name2
      shorter == IF Len(name1) > Len(name2) THEN name2 ELSE name1
  IN IF Len(longer) = 0 THEN <<1, 1>>
     ELSE <<Len(longer) - levenshteinDistance(longer, shorter), Len(longer)>>

\* Mutant: a similarity of exactly 0.8 passes.
AtLeastPoint8(sim) == 5 * sim[1] >= 4 * sim[2]

ExceedsPoint8(sim) == 5 * sim[1] > 4 * sim[2]

isDuplicate(client1, client2) ==
  LET name1 == trim(toLowerCase(FullName(client1)))
      name2 == trim(toLowerCase(FullName(client2)))
  IN \/ name1 = name2
     \/ /\ Truthy(client1.aka) /\ Truthy(client2.aka)
        /\ trim(toLowerCase(client1.aka)) = trim(toLowerCase(client2.aka))
     \/ Truthy(client1.aka) /\ name2 = trim(toLowerCase(client1.aka))
     \/ Truthy(client2.aka) /\ name1 = trim(toLowerCase(client2.aka))
     \/ /\ ExceedsPoint8(calculateNameSimilarity(name1, name2))
        /\ \/ client1.age = client2.age /\ TruthyField(client1.age)
           \/ client1.gender = client2.gender /\ TruthyField(client1.gender)
           \/ client1.ethnicity = client2.ethnicity /\ TruthyField(client1.ethnicity)

\* isDuplicate throws a TypeError when it calls .toLowerCase() on an aka
\* that holds no string; each call stands behind the check of its aka.
isDuplicateThrows(client1, client2) ==
  LET name1 == trim(toLowerCase(FullName(client1)))
      name2 == trim(toLowerCase(FullName(client2)))
      bothAka == Truthy(client1.aka) /\ Truthy(client2.aka)
  IN /\ name1 # name2
     /\ \/ bothAka /\ (client1.aka = Undefined \/ client2.aka = Undefined)
        \/ /\ ~(bothAka /\ trim(toLowerCase(client1.aka)) = trim(toLowerCase(client2.aka)))
           /\ \/ Truthy(client1.aka) /\ client1.aka = Undefined
              \/ /\ ~(Truthy(client1.aka) /\ name2 = trim(toLowerCase(client1.aka)))
                 /\ Truthy(client2.aka) /\ client2.aka = Undefined

calculateDuplicateScore(client1, client2) ==
  LET name1 == toLowerCase(FullName(client1))
      name2 == toLowerCase(FullName(client2))
      score == (IF name1 = name2 THEN 100 ELSE 0)
             + (IF client1.age = client2.age /\ TruthyField(client1.age) THEN 20 ELSE 0)
             + (IF client1.gender = client2.gender /\ TruthyField(client1.gender) THEN 15 ELSE 0)
             + (IF client1.ethnicity = client2.ethnicity /\ TruthyField(client1.ethnicity) THEN 15 ELSE 0)
             + (IF client1.height = client2.height /\ TruthyField(client1.height) THEN 10 ELSE 0)
             - Abs(OrZero(client1.contacts) - OrZero(client2.contacts))
  IN Max2(0, score)

\* Mutant: the aliases are looked at before the names.
getDuplicateReasonAkaFirst(client1, client2) ==
  LET name1 == toLowerCase(FullName(client1))
      name2 == toLowerCase(FullName(client2))
  IN IF /\ Truthy(client1.aka) /\ Truthy(client2.aka)
        /\ toLowerCase(client1.aka) = toLowerCase(client2.aka)
       THEN "Matching AKA"
       ELSE IF name1 = name2 THEN "Exact name match"
       ELSE "Similar name + demographics"

getDuplicateReason(client1, client2) ==
  LET name1 == toLowerCase(FullName(client1))
      name2 == toLowerCase(FullName(client2))
  IN IF name1 = name2 THEN "Exact name match"
     ELSE IF /\ Truthy(client1.aka) /\ Truthy(client2.aka)
             /\ toLowerCase(client1.aka) = toLowerCase(client2.aka)
       THEN "Matching AKA"
       ELSE "Similar name + demographics"

\* getDuplicateReason throws a TypeError in the same way.
getDuplicateReasonThrows(client1, client2) ==
  /\ toLowerCase(FullName(client1)) # toLowerCase(FullName(client2))
  /\ Truthy(client1.aka) /\ Truthy(client2.aka)
  /\ (client1.aka = Undefined \/ client2.aka = Undefined)

(***************************************************************************)
(* Array.prototype.sort((a, b) => b.score - a.score): a stable sort, so a  *)
(* group goes after every earlier group whose score is not smaller.        *)
(***************************************************************************)
\* Mutant: a group goes before the earlier groups of its own score.
RECURSIVE InsertByScoreBeforeTies(_, _)
InsertByScoreBeforeTies(sorted, g) ==
  IF sorted = <<>> THEN <<g>>
  ELSE IF Head(sorted).score > g.score
    THEN <<Head(sorted)>> \o InsertByScoreBeforeTies(Tail(sorted), g)
    ELSE <<g>> \o sorted

RECURSIVE InsertByScore(_, _)
InsertByScore(sorted, g) ==
  IF sorted = <<>> THEN <<g>>
  ELSE IF Head(sorted).score >= g.score
    THEN <<Head(sorted)>> \o InsertByScore(Tail(sorted), g)
    ELSE <<g>> \o sorted

RECURSIVE SortByScore(_)
SortByScore(groups) ==
  IF groups = <<>> THEN <<>>
  ELSE InsertByScore(SortByScore(SubSeq(groups, 1, Len(groups) - 1)),
                     groups[Len(groups)])

\* Mutant: a record that an earlier group has claimed may still join.
RECURSIVE FindFromIgnoresClaimed(_, _, _, _)
FindFromIgnoresClaimed(clients, index, processed, groups) ==
  IF index > Len(clients) THEN groups
  ELSE LET client == clients[index]
           rest == SubSeq(clients, index + 1, Len(clients))
           Keep(other) == isDuplicate(client, other)
           duplicates == SelectSeq(rest, Keep)
       IN IF client.id \in processed \/ duplicates = <<>>
            THEN FindFromIgnoresClaimed(clients, index + 1, processed, groups)
            ELSE LET allClients == <<client>> \o duplicates
                 IN FindFromIgnoresClaimed(clients, index + 1,
                      processed \cup {allClients[k].id : k \in 1..Len(allClients)},
                      Append(groups,
                        [id |-> index - 1,
                         clients |-> allClients,
                         score |-> calculateDuplicateScore(client, duplicates[1]),
                         reason |-> getDuplicateReason(client, duplicates[1])]))

\* clients.forEach((client, index) => ...): index is 1-based here, the
\* group id is `group-${index - 1}`.
RECURSIVE FindFrom(_, _, _, _)
FindFrom(clients, index, processed, groups) ==
  IF index > Len(clients) THEN groups
  ELSE LET client == clients[index]
           rest == SubSeq(clients, index + 1, Len(clients))
           Keep(other) == other.id \notin processed /\ isDuplicate(client, other)
           duplicates == SelectSeq(rest, Keep)
       IN IF client.id \in processed \/ duplicates = <<>>
            THEN FindFrom(clients, index + 1, processed, groups)
            ELSE LET allClients == <<client>> \o duplicates
                 IN FindFrom(clients, index + 1,
                      processed \cup {allClients[k].id : k \in 1..Len(allClients)},
                      Append(groups,
                        [id |-> index - 1,
                         clients |-> allClients,
                         score |-> calculateDuplicateScore(client, duplicates[1]),
                         reason |-> getDuplicateReason(client, duplicates[1])]))

findDuplicates(clients) == SortByScore(FindFrom(clients, 1, {}, <<>>))

\* findDuplicates throws when a call of isDuplicate or getDuplicateReason
\* that the scan makes throws.
RECURSIVE FindFromThrows(_, _, _)
FindFromThrows(clients, index, processed) ==
  IF index > Len(clients) THEN FALSE
  ELSE LET client == clients[index]
           rest == SubSeq(clients, index + 1, Len(clients))
           Asked(other) == other.id \notin processed
           Keep(other) == other.id \notin processed /\ isDuplicate(client, other)
           asked == SelectSeq(rest, Asked)
           duplicates == SelectSeq(rest, Keep)
       IN IF client.id \in processed
            THEN FindFromThrows(clients, index + 1, processed)
            ELSE IF \E k \in 1..Len(asked) : isDuplicateThrows(client, asked[k])
              THEN TRUE
              ELSE IF duplicates = <<>>
                THEN FindFromThrows(clients, index + 1, processed)
                ELSE \/ getDuplicateReasonThrows(client, duplicates[1])
                     \/ FindFromThrows(clients, index + 1,
                          processed \cup {client.id}
                            \cup {duplicates[k].id : k \in 1..Len(duplicates)})

findDuplicatesThrows(clients) == FindFromThrows(clients, 1, {})

\* error.message of the TypeError.
TypeErrorMessage == "Cannot read properties of undefined (reading 'toLowerCase')"


(***************************************************************************)
(* The storage collaborator: the tables and the four calls on them.        *)
(***************************************************************************)
\* The stored clients at the start: every client is "a b", created in the
\* order of the ids, except that client 1 may be "a c"; client 1 has 5
\* contacts, client 2 has 2 and the others 1.
LastNames(id) == IF id = 1 THEN {<<"b">>, <<"c">>} ELSE {<<"b">>}
ContactsAtStart(id) == IF id = 1 THEN 5 ELSE IF id = 2 THEN 2 ELSE 1

NewClient(id, last, contacts) ==
  [id |-> id, first_name |-> <<"a">>, last_name |-> last, aka |-> <<>>,
   age |-> "", gender |-> "", ethnicity |-> "", height |-> "",
   contacts |-> contacts, created_at |-> id]

\* .from('clients').select('*').order('created_at', { ascending: false })
RECURSIVE RowsDescending(_, _)
RowsDescending(table, ids) ==
  IF ids = {} THEN <<>>
  ELSE LET latest == CHOOSE x \in ids :
                       \A y \in ids : table[y].created_at <= table[x].created_at
       IN <<table[latest]>> \o RowsDescending(table, ids \ {latest})

FetchAllClients(table) == RowsDescending(table, DOMAIN table)

\* Mutant: the update has no filter.
ReassignActivityOfAll(interactions, from, to) ==
  [x \in DOMAIN interactions |-> to]

\* .from('interactions').update({ client_id: to }).eq('client_id', from)
ReassignActivity(interactions, from, to) ==
  [x \in DOMAIN interactions |->
     IF interactions[x] = from THEN to ELSE interactions[x]]

\* .from('clients').update({ contacts: total }).eq('id', id)
UpdateContactCount(table, id, total) ==
  [x \in DOMAIN table |->
     IF x = id THEN [table[x] EXCEPT !.contacts = total] ELSE table[x]]

\* .from('clients').delete().eq('id', id)
DeleteClient(table, id) == [x \in DOMAIN table \ {id} |-> table[x]]

(***************************************************************************)
(* State.                                                                  *)
(*   clients, acts   the stored tables                                     *)
(*   active          the operator sessions that exist                      *)
(*   ui[s]           the component's useState fields in session s          *)
(*   fetching[s]     loadDuplicates calls of s whose fetch is in flight    *)
(*   run[s]          executeMerge of s: where it is and its locals         *)
(*   log[s]          what the current (or last) executeMerge of s did      *)
(*   merges          executeMerge calls so far                             *)
(*   refreshes       clicks on Refresh so far                              *)
(*   intake          the intake form of another worker: where its          *)
(*                   handleSubmit is                                       *)
(*   raises          contact counts raised by other writers so far         *)
(***************************************************************************)
VARIABLES clients, acts, active, ui, fetching, run, log, merges, refreshes,
          measure, intake, raises

vars == <<clients, acts, active, ui, fetching, run, log, merges, refreshes,
          measure, intake, raises>>

\* The model stops the operators after MaxMerges merges and MaxRefresh
\* clicks on Refresh.
MaxMerges == 2
MaxRefresh == 1

NoGroup == [id |-> 0 - 1, clients |-> <<>>, score |-> 0, reason |-> ""]
NoRow == NewClient(NoClient, <<>>, 0)

MemberIds(group) == {group.clients[k].id : k \in 1..Len(group.clients)}

\* error.message of what a storage call returned or threw: the storage
\* client's text, the same for whichever call it was.
ErrorMessages == {"Failed to fetch", "JWT expired"}

InitUi ==
  [duplicateGroups |-> <<>>, loading |-> TRUE, mergeDialog |-> FALSE,
   selectedGroup |-> NoGroup, primaryClient |-> NoClient, merging |-> FALSE,
   error |-> <<>>, success |-> <<>>]

IdleRun == [pc |-> "idle", group |-> NoGroup, primary |-> NoRow,
            duplicates |-> <<>>, i |-> 0]

\* log[s] observes executeMerge; the code keeps none of it.
\*   outcome     "none", "running", "success" or "error"
\*   failed      the step whose call returned the error
\*   calls       the storage calls issued, <<step, id, succeeded>>
\*   deleted     the ids whose delete call succeeded
\*   group, primary, duplicates   what the merge was given
\*   preClients, preActs    the tables when the merge began
\*   baseClients, baseActs, baseGroup
\*               the tables and the group when the first attempt of this
\*               merge began (a retry is a merge of the members and the
\*               primary of the failed merge before it)
\*   repeat      the merge before it had these members and this primary,
\*               and succeeded
NoLog == [outcome |-> "none", failed |-> "", calls |-> <<>>, deleted |-> {},
          group |-> NoGroup, primary |-> NoClient, duplicates |-> <<>>,
          preClients |-> <<>>, preActs |-> <<>>,
          baseClients |-> <<>>, baseActs |-> <<>>, baseGroup |-> NoGroup,
          repeat |-> FALSE]

\* measure holds two names and what calculateNameSimilarity and
\* levenshteinDistance returned for them; the merge and the list make no
\* use of it.
NoMeasure == [asked |-> FALSE, name1 |-> <<>>, name2 |-> <<>>, results |-> <<>>]

\* intake.pc is where handleSubmit of the intake form is, intake.id the id
\* of the client it inserted.  intake.merge observes the merge that was
\* between its first and its last storage call, with the client of the
\* form among the clients it deletes, when the form's interaction was
\* inserted (0 if there was none).
\* No intake form is open and nothing else writes to the tables.
NoIntake == [pc |-> "none", id |-> NoClient, merge |-> 0]
NoOtherWriters == intake = NoIntake /\ raises = 0

InitStorage ==
  /\ \E last \in LastNames(1) :
       clients = [id \in ClientIds |->
                    NewClient(id, IF id = 1 THEN last ELSE <<"b">>, ContactsAtStart(id))]
  /\ acts = [a \in ActIds |-> a]

\* The component mounts with loading = true and its effect calls
\* loadDuplicates, whose fetch is then in flight.
InitSessions ==
  /\ ui = [s \in Sessions |-> InitUi]
  /\ fetching = [s \in Sessions |-> IF s \in active THEN 1 ELSE 0]
  /\ run = [s \in Sessions |-> IdleRun]
  /\ log = [s \in Sessions |-> NoLog]
  /\ merges = 0
  /\ refreshes = 0

Init ==
  /\ active = {1}
  /\ InitStorage
  /\ InitSessions
  /\ measure = NoMeasure
  /\ NoOtherWriters

\* The component renders only the spinner while loading.
Visible(s) == s \in active /\ ~ui[s].loading

(***************************************************************************)
(* loadDuplicates                                                          *)
(***************************************************************************)
\* The Refresh button.
Refresh(s) ==
  /\ Visible(s) /\ ~ui[s].mergeDialog
  /\ refreshes < MaxRefresh
  /\ refreshes' = refreshes + 1
  /\ ui' = [ui EXCEPT ![s].loading = TRUE]
  /\ fetching' = [fetching EXCEPT ![s] = @ + 1]
  /\ UNCHANGED <<clients, acts, active, measure, intake, raises, run, log, merges>>

\* Mutant: the set `processed` outlives the call, so a second call starts
\* with the members of the groups the first call found.
LoadOkKeepsProcessed(s) ==
  /\ s \in active /\ fetching[s] > 0
  /\ fetching' = [fetching EXCEPT ![s] = @ - 1]
  /\ LET before == ui[s].duplicateGroups
         processed == UNION {{before[g].clients[k].id :
                               k \in 1..Len(before[g].clients)} :
                             g \in 1..Len(before)}
     IN ui' = [ui EXCEPT
                 ![s].duplicateGroups =
                    SortByScore(FindFrom(FetchAllClients(clients), 1, processed, <<>>)),
                 ![s].loading = FALSE]
  /\ UNCHANGED <<clients, acts, active, measure, intake, raises, run, log, merges, refreshes>>

LoadOk(s) ==
  /\ s \in active /\ fetching[s] > 0
  /\ fetching' = [fetching EXCEPT ![s] = @ - 1]
  /\ IF findDuplicatesThrows(FetchAllClients(clients))
       THEN ui' = [ui EXCEPT ![s].error = <<"Failed to load clients: ", TypeErrorMessage>>,
                             ![s].loading = FALSE]
       ELSE ui' = [ui EXCEPT ![s].duplicateGroups = findDuplicates(FetchAllClients(clients)),
                             ![s].loading = FALSE]
  /\ UNCHANGED <<clients, acts, active, measure, intake, raises, run, log, merges, refreshes>>

\* Mutant: a failed fetch is taken as an empty table.
LoadFailClearsList(s) ==
  /\ s \in active /\ fetching[s] > 0
  /\ fetching' = [fetching EXCEPT ![s] = @ - 1]
  /\ \E message \in ErrorMessages :
       ui' = [ui EXCEPT ![s].error = <<"Failed to load clients: ", message>>,
                        ![s].duplicateGroups = <<>>,
                        ![s].loading = FALSE]
  /\ UNCHANGED <<clients, acts, active, measure, intake, raises, run, log, merges, refreshes>>

LoadFail(s) ==
  /\ s \in active /\ fetching[s] > 0
  /\ fetching' = [fetching EXCEPT ![s] = @ - 1]
  /\ \E message \in ErrorMessages :
       ui' = [ui EXCEPT ![s].error = <<"Failed to load clients: ", message>>,
                        ![s].loading = FALSE]
  /\ UNCHANGED <<clients, acts, active, measure, intake, raises, run, log, merges, refreshes>>

(***************************************************************************)
(* The merge dialog                                                        *)
(***************************************************************************)
\* group.clients.reduce((prev, current) =>
\*   (current.contacts || 0) > (prev.contacts || 0) ? current : prev)
\* Mutant: a later member with as many contacts replaces the earlier one.
RECURSIVE MostContactsLastOfTies(_, _, _)
MostContactsLastOfTies(rows, k, prev) ==
  IF k > Len(rows) THEN prev
  ELSE MostContactsLastOfTies(rows, k + 1,
         IF OrZero(rows[k].contacts) >= OrZero(prev.contacts) THEN rows[k] ELSE prev)

RECURSIVE MostContacts(_, _, _)
MostContacts(rows, k, prev) ==
  IF k > Len(rows) THEN prev
  ELSE MostContacts(rows, k + 1,
         IF OrZero(rows[k].contacts) > OrZero(prev.contacts) THEN rows[k] ELSE prev)

DefaultPrimary(group) == MostContacts(group.clients, 2, group.clients[1])

handleMergeClients(s, k) ==
  /\ Visible(s) /\ ~ui[s].mergeDialog
  /\ k \in 1..Len(ui[s].duplicateGroups)
  /\ LET group == ui[s].duplicateGroups[k]
     IN ui' = [ui EXCEPT ![s].selectedGroup = group,
                         ![s].primaryClient = DefaultPrimary(group).id,
                         ![s].mergeDialog = TRUE]
  /\ UNCHANGED <<clients, acts, active, measure, intake, raises, fetching, run, log, merges, refreshes>>

\* The dialog's Select: onChange={(e) => setPrimaryClient(e.target.value)}
SelectPrimary(s, id) ==
  /\ Visible(s) /\ ui[s].mergeDialog
  /\ id \in MemberIds(ui[s].selectedGroup)
  /\ id # ui[s].primaryClient
  /\ ui' = [ui EXCEPT ![s].primaryClient = id]
  /\ UNCHANGED <<clients, acts, active, measure, intake, raises, fetching, run, log, merges, refreshes>>

\* Cancel, or the dialog's onClose.
CloseDialog(s) ==
  /\ Visible(s) /\ ui[s].mergeDialog
  /\ ui' = [ui EXCEPT ![s].mergeDialog = FALSE]
  /\ UNCHANGED <<clients, acts, active, measure, intake, raises, fetching, run, log, merges, refreshes>>

(***************************************************************************)
(* executeMerge.  Each await of a storage call is one step: the call       *)
(* either returns an error (and the catch and finally blocks run) or takes *)
(* effect, and the code runs on to its next await or to its end.           *)
(***************************************************************************)
\* selectedGroup.clients.find(c => c.id === primaryClient)
FindPrimary(group, primaryClient) ==
  IF primaryClient \in MemberIds(group)
    THEN group.clients[CHOOSE k \in 1..Len(group.clients) :
                         /\ group.clients[k].id = primaryClient
                         /\ \A j \in 1..(k - 1) : group.clients[j].id # primaryClient]
    ELSE NoRow

\* selectedGroup.clients.filter(c => c.id !== primaryClient)
FilterDuplicates(group, primaryClient) ==
  LET Other(c) == c.id # primaryClient IN SelectSeq(group.clients, Other)

\* selectedGroup.clients.reduce((sum, c) => sum + (c.contacts || 0), 0)
RECURSIVE SumContacts(_)
SumContacts(rows) ==
  IF rows = <<>> THEN 0
  ELSE OrZero(Head(rows).contacts) + SumContacts(Tail(rows))

TotalContacts(group) == SumContacts(group.clients)

\* The order of the awaits: every reassignment, then the count update,
\* then every deletion, then the success report.
\* Mutant: the deletions come first.
AfterStartDeletes(n) == IF n > 0 THEN <<"delete", 1>> ELSE <<"update", 0>>

AfterStart(n) == IF n > 0 THEN <<"reassign", 1>> ELSE <<"update", 0>>
AfterReassign(i, n) == IF i < n THEN <<"reassign", i + 1>> ELSE <<"update", 0>>
\* Mutant: the merge ends after the count update.
AfterUpdateSkipsDeletes(n) == <<"done", 0>>
AfterUpdate(n) == IF n > 0 THEN <<"delete", 1>> ELSE <<"done", 0>>
AfterDelete(i, n) == IF i < n THEN <<"delete", i + 1>> ELSE <<"done", 0>>

SuccessMessage(primary, duplicates) ==
  <<Len(duplicates), IF Len(duplicates) > 1 THEN "s" ELSE "",
    primary.first_name, primary.last_name>>

\* What log[s] holds when executeMerge begins.
LogAtStart(s, group, primary, duplicates) ==
  LET before == log[s]
      same == /\ before.group # NoGroup
              /\ MemberIds(before.group) = MemberIds(group)
              /\ before.primary = primary.id
      retry == same /\ before.outcome = "error"
  IN [NoLog EXCEPT
        !.group = group, !.primary = primary.id, !.duplicates = duplicates,
        !.preClients = clients, !.preActs = acts,
        !.baseClients = IF retry THEN before.baseClients ELSE clients,
        !.baseActs = IF retry THEN before.baseActs ELSE acts,
        !.baseGroup = IF retry THEN before.baseGroup ELSE group,
        !.repeat = same /\ before.outcome = "success"]

\* The button is rendered in the dialog and disabled={!primaryClient || merging}.
MergeStart(s) ==
  /\ Visible(s) /\ ui[s].mergeDialog
  /\ ui[s].primaryClient # NoClient /\ ~ui[s].merging
  /\ ui[s].selectedGroup # NoGroup
  /\ merges < MaxMerges
  /\ merges' = merges + 1
  /\ LET group == ui[s].selectedGroup
         primary == FindPrimary(group, ui[s].primaryClient)
         duplicates == FilterDuplicates(group, ui[s].primaryClient)
         next == AfterStart(Len(duplicates))
         started == LogAtStart(s, group, primary, duplicates)
     IN IF primary = NoRow
          THEN /\ ui' = [ui EXCEPT ![s].error =
                           <<"Failed to merge clients: ", "Primary client not found">>]
               /\ log' = [log EXCEPT ![s] =
                           [started EXCEPT !.outcome = "error", !.failed = "find"]]
               /\ run' = run
          ELSE /\ ui' = [ui EXCEPT ![s].merging = TRUE]
               /\ log' = [log EXCEPT ![s] = [started EXCEPT !.outcome = "running"]]
               /\ run' = [run EXCEPT ![s] =
                           [pc |-> next[1], group |-> group, primary |-> primary,
                            duplicates |-> duplicates, i |-> next[2]]]
  /\ UNCHANGED <<clients, acts, active, measure, intake, raises, fetching, refreshes>>

\* Mutant: the failed call is issued again.
MergeFailsRetries(s, call) ==
  /\ log' = [log EXCEPT ![s].calls = Append(@, call)]
  /\ UNCHANGED <<ui, run, clients, acts, active, measure, intake, raises, fetching, merges, refreshes>>

\* A storage call of the merge returned an error: throw, catch, finally.
MergeFails(s, call) ==
  /\ \E message \in ErrorMessages :
       ui' = [ui EXCEPT ![s].error = <<"Failed to merge clients: ", message>>,
                        ![s].merging = FALSE]
  /\ run' = [run EXCEPT ![s] = IdleRun]
  /\ log' = [log EXCEPT ![s].outcome = "error", ![s].failed = run[s].pc,
                        ![s].calls = Append(@, call)]
  /\ UNCHANGED <<clients, acts, active, measure, intake, raises, fetching, merges, refreshes>>

\* A storage call of the merge succeeded; the code runs on to `next`.
\* "done" is the end of the try block: setSuccess, setMergeDialog(false),
\* loadDuplicates() up to its await, and the finally block.
MergeGoesOn(s, call, next, deletedNow) ==
  /\ log' = [log EXCEPT ![s].calls = Append(@, call),
                        ![s].deleted = @ \cup deletedNow,
                        ![s].outcome = IF next[1] = "done" THEN "success" ELSE @]
  /\ IF next[1] = "done"
       THEN /\ ui' = [ui EXCEPT
                       ![s].success = SuccessMessage(run[s].primary, run[s].duplicates),
                       ![s].mergeDialog = FALSE,
                       ![s].loading = TRUE,
                       ![s].merging = FALSE]
            /\ fetching' = [fetching EXCEPT ![s] = @ + 1]
            /\ run' = [run EXCEPT ![s] = IdleRun]
       ELSE /\ run' = [run EXCEPT ![s].pc = next[1], ![s].i = next[2]]
            /\ UNCHANGED <<ui, fetching>>
  /\ UNCHANGED <<active, measure, intake, raises, merges, refreshes>>

ReassignOk(s) ==
  /\ s \in active /\ run[s].pc = "reassign"
  /\ LET duplicate == run[s].duplicates[run[s].i]
     IN /\ acts' = ReassignActivity(acts, duplicate.id, run[s].primary.id)
        /\ MergeGoesOn(s, <<"reassign", duplicate.id, TRUE>>,
                       AfterReassign(run[s].i, Len(run[s].duplicates)), {})
  /\ UNCHANGED clients

ReassignFail(s) ==
  /\ s \in active /\ run[s].pc = "reassign"
  /\ MergeFails(s, <<"reassign", run[s].duplicates[run[s].i].id, FALSE>>)

UpdateOk(s) ==
  /\ s \in active /\ run[s].pc = "update"
  /\ clients' = UpdateContactCount(clients, run[s].primary.id,
                                   TotalContacts(run[s].group))
  /\ MergeGoesOn(s, <<"update", run[s].primary.id, TRUE>>,
                 AfterUpdate(Len(run[s].duplicates)), {})
  /\ UNCHANGED acts

UpdateFail(s) ==
  /\ s \in active /\ run[s].pc = "update"
  /\ MergeFails(s, <<"update", run[s].primary.id, FALSE>>)

DeleteOk(s) ==
  /\ s \in active /\ run[s].pc = "delete"
  /\ LET duplicate == run[s].duplicates[run[s].i]
     IN /\ clients' = DeleteClient(clients, duplicate.id)
        /\ MergeGoesOn(s, <<"delete", duplicate.id, TRUE>>,
                       AfterDelete(run[s].i, Len(run[s].duplicates)),
                       {duplicate.id})
  /\ UNCHANGED acts

DeleteFail(s) ==
  /\ s \in active /\ run[s].pc = "delete"
  /\ MergeFails(s, <<"delete", run[s].duplicates[run[s].i].id, FALSE>>)

Next ==
  \E s \in Sessions :
    \/ Refresh(s)
    \/ LoadOk(s)
    \/ LoadFail(s)
    \/ \E k \in 1..NumClients : handleMergeClients(s, k)
    \/ \E id \in ClientIds : SelectPrimary(s, id)
    \/ CloseDialog(s)
    \/ MergeStart(s)
    \/ ReassignOk(s)
    \/ ReassignFail(s)
    \/ UpdateOk(s)
    \/ UpdateFail(s)
    \/ DeleteOk(s)
    \/ DeleteFail(s)

\* One operator session.
Spec == Init /\ [][Next]_vars

\* Several operator sessions on the same tables, each with the page
\* loaded; the operators open the dialog, choose a primary and merge.
InitConcurrent ==
  /\ active = Sessions
  /\ InitStorage
  /\ InitSessions
  /\ measure = NoMeasure
  /\ NoOtherWriters

NextConcurrent ==
  \E s \in Sessions :
    \/ LoadOk(s)
    \/ \E k \in 1..NumClients : handleMergeClients(s, k)
    \/ \E id \in ClientIds : SelectPrimary(s, id)
    \/ MergeStart(s)
    \/ ReassignOk(s)
    \/ ReassignFail(s)
    \/ UpdateOk(s)
    \/ UpdateFail(s)
    \/ DeleteOk(s)
    \/ DeleteFail(s)

SpecConcurrent == InitConcurrent /\ [][NextConcurrent]_vars

(***************************************************************************)
(* Other writers to the tables while an operator merges: the intake form   *)
(* of another worker (ClientIntake.handleSubmit), which inserts a client   *)
(* and then, when it has a location, an interaction for that client; and   *)
(* the logging of encounters, which raises a client's contact count.       *)
(***************************************************************************)
MaxRaises == 2

\* The client and the interaction that the intake form inserts get ids
\* that the tables do not hold.
IntakeClientId == NumClients
IntakeActId == NumClients

\* formData: a name that is a duplicate of a stored one, or no last name.
IntakeForms == [first_name : {<<"a">>}, last_name : {<<>>, <<"b">>}]

\* The tables before the intake form has inserted its client.
InitStorageBeforeIntake ==
  /\ \E last \in LastNames(1) :
       clients = [id \in ClientIds \ {IntakeClientId} |->
                    NewClient(id, IF id = 1 THEN last ELSE <<"b">>, ContactsAtStart(id))]
  /\ acts = [a \in ActIds |-> a]

InitIntake == [pc |-> "form", id |-> NoClient, merge |-> 0]

InitCollaborator ==
  /\ active = {1}
  /\ InitStorageBeforeIntake
  /\ InitSessions
  /\ measure = NoMeasure
  /\ intake = InitIntake
  /\ raises = 0

\* if (!formData.first_name || !formData.last_name) throw ...
IntakeInvalid ==
  /\ intake.pc = "form"
  /\ \E form \in IntakeForms :
       ~Truthy(form.first_name) \/ ~Truthy(form.last_name)
  /\ intake' = [intake EXCEPT !.pc = "error"]
  /\ UNCHANGED <<clients, acts, active, measure, raises, ui, fetching, run, log,
                 merges, refreshes>>

\* .from('clients').insert([clientData]).select().single() with
\* contacts: 1 and created_at: now; then, with a location, the insert of
\* the interaction is next.
IntakeClientOk(location) ==
  /\ intake.pc = "form"
  /\ \E form \in IntakeForms :
       /\ Truthy(form.first_name) /\ Truthy(form.last_name)
       /\ clients' = clients @@
            (IntakeClientId :> NewClient(IntakeClientId, form.last_name, 1))
  /\ intake' = [intake EXCEPT !.pc = IF location THEN "interaction" ELSE "done",
                              !.id = IntakeClientId]
  /\ UNCHANGED <<acts, active, measure, raises, ui, fetching, run, log, merges,
                 refreshes>>

\* if (insertError) throw insertError
IntakeClientFail ==
  /\ intake.pc = "form"
  /\ \E form \in IntakeForms : Truthy(form.first_name) /\ Truthy(form.last_name)
  /\ intake' = [intake EXCEPT !.pc = "error"]
  /\ UNCHANGED <<clients, acts, active, measure, raises, ui, fetching, run, log,
                 merges, refreshes>>

\* The merge of session s is between its first and its last storage call
\* and deletes the client id.
MergeRunningOn(s, id) ==
  /\ log[s].outcome = "running" /\ log[s].calls # <<>>
  /\ \E k \in 1..Len(log[s].duplicates) : log[s].duplicates[k].id = id

\* await supabase.from('interactions').insert([interactionData]) with
\* client_id: data.id
IntakeInteractionOk ==
  /\ intake.pc = "interaction"
  /\ acts' = acts @@ (IntakeActId :> intake.id)
  /\ intake' = [intake EXCEPT !.pc = "done",
                              !.merge = IF \E s \in active : MergeRunningOn(s, intake.id)
                                          THEN merges ELSE 0]
  /\ UNCHANGED <<clients, active, measure, raises, ui, fetching, run, log, merges,
                 refreshes>>

\* The result of the insert is not looked at.
IntakeInteractionFail ==
  /\ intake.pc = "interaction"
  /\ intake' = [intake EXCEPT !.pc = "done"]
  /\ UNCHANGED <<clients, acts, active, measure, raises, ui, fetching, run, log,
                 merges, refreshes>>

\* An encounter with client id is logged: its contact count goes up by one.
RaiseContacts(id) ==
  /\ raises < MaxRaises
  /\ id \in DOMAIN clients
  /\ clients' = [clients EXCEPT ![id].contacts = @ + 1]
  /\ raises' = raises + 1
  /\ UNCHANGED <<acts, active, measure, intake, ui, fetching, run, log, merges,
                 refreshes>>

NextCollaborator ==
  \/ LoadOk(1)
  \/ \E k \in 1..NumClients : handleMergeClients(1, k)
  \/ MergeStart(1)
  \/ ReassignOk(1)
  \/ ReassignFail(1)
  \/ UpdateOk(1)
  \/ UpdateFail(1)
  \/ DeleteOk(1)
  \/ DeleteFail(1)
  \/ IntakeInvalid
  \/ \E location \in BOOLEAN : IntakeClientOk(location)
  \/ IntakeClientFail
  \/ IntakeInteractionOk
  \/ IntakeInteractionFail
  \/ \E id \in ClientIds : RaiseContacts(id)

SpecCollaborator == InitCollaborator /\ [][NextCollaborator]_vars

(***************************************************************************)
(* The matcher on its own: the page is loaded and refreshed over stored    *)
(* clients that differ in every field the matcher reads, and the two name  *)
(* functions are applied to pairs of short strings.                        *)
(***************************************************************************)
MaxRows == 4
MaxNameLen == 3

ab == <<"a", "b">>
cde == <<"c", "d", "e">>
cd == <<"c", "d">>

\* Stored with created_at falling as the id grows, so that the fetched rows
\* are in the order of the ids.
\* Names and aliases that differ in case, in blanks at the ends and in one
\* character; with and without an age.
NameAkaPeople(id) ==
  [id : {id}, first_name : {ab, <<"A", "b">>},
   last_name : {cde, <<"c", "d", "f">>, <<"c", "d", "e", " ">>, cd, <<"c", "e">>},
   aka : {<<>>, <<"k">>, <<" ", "K">>, ab \o <<" ">> \o cde},
   age : {"", "30"}, gender : {""}, ethnicity : {""}, height : {""},
   contacts : {1}, created_at : {0 - id}]

\* Equal, similar and different names with every relation of the
\* demographic fields and of the contact counts.
DemoPeople(id) ==
  [id : {id}, first_name : {ab},
   last_name : IF id = 1 THEN {cde} ELSE {cde, <<"c", "d", "f">>, <<"c", "e">>},
   aka : {<<>>},
   age : IF id = 1 THEN {"", "30"} ELSE {"", "30", "40"},
   gender : IF id = 1 THEN {"", "m"} ELSE {"", "m", "f"},
   ethnicity : {"", "e"}, height : {"", "h"},
   contacts : IF id = 1 THEN {Null, 5} ELSE {0, 2, 5},
   created_at : {0 - id}]

\* Empty and missing names and aliases.
EdgePeople(id) ==
  [id : {id}, first_name : {<<>>, ab}, last_name : {<<>>, cde},
   aka : {<<>>, Undefined, <<"k">>, ab \o <<" ">> \o cde},
   age : {"", "30"}, gender : {""}, ethnicity : {""}, height : {""},
   contacts : {1}, created_at : {0 - id}]

\* Two names, with and without a shared alias, for lists of several groups.
ListPeople(id) ==
  [id : {id}, first_name : {ab}, last_name : {cde, cd}, aka : {<<>>, <<"k">>},
   age : {""}, gender : {""}, ethnicity : {""}, height : {""},
   contacts : {2, 5}, created_at : {0 - id}]

RECURSIVE ListTables(_)
ListTables(n) ==
  IF n = 0 THEN {<<>>}
  ELSE {Append(table, p) : table \in ListTables(n - 1), p \in ListPeople(n)}

\* Two people whose names differ by one inserted and one replaced
\* character, of the same age and with one contact each.
JonSmyth ==
  [id |-> 1, first_name |-> <<"J", "o", "n">>,
   last_name |-> <<"S", "m", "y", "t", "h">>, aka |-> <<>>,
   age |-> "30", gender |-> "", ethnicity |-> "", height |-> "",
   contacts |-> 1, created_at |-> 0 - 1]
JohnSmith ==
  [id |-> 2, first_name |-> <<"J", "o", "h", "n">>,
   last_name |-> <<"S", "m", "i", "t", "h">>, aka |-> <<>>,
   age |-> "30", gender |-> "", ethnicity |-> "", height |-> "",
   contacts |-> 1, created_at |-> 0 - 2]
JonAndJohn == <<JonSmyth, JohnSmith>>

MatcherTables ==
  {<<p, q>> : p \in NameAkaPeople(1), q \in NameAkaPeople(2)}
    \cup {<<p, q>> : p \in DemoPeople(1), q \in DemoPeople(2)}
    \cup UNION {ListTables(n) : n \in 3..MaxRows}
    \cup {JonAndJohn}
    \cup {<<p, q>> : p \in EdgePeople(1), q \in EdgePeople(2)}
    \cup {<<>>}

Alphabet == {"a", "b", "c"}
ShortNames == UNION {[1..n -> Alphabet] : n \in 0..MaxNameLen}

\* The names that isDuplicate hands to calculateNameSimilarity for the two
\* people above.
LongNames == {trim(toLowerCase(FullName(JonSmyth))),
              trim(toLowerCase(FullName(JohnSmith)))}

InitMatcher ==
  /\ active = {1}
  /\ InitSessions
  /\ NoOtherWriters
  /\ acts = <<>>
  /\ \/ /\ clients \in MatcherTables
        /\ measure = NoMeasure
     \/ /\ clients = <<>>
        /\ \E name1, name2 \in ShortNames \cup LongNames :
             measure = [asked |-> TRUE, name1 |-> name1, name2 |-> name2,
                        results |-> <<>>]

\* calculateNameSimilarity(name1, name2) and levenshteinDistance on the two
\* names, in both orders and on name1 with itself.
Measure ==
  /\ measure.asked /\ measure.results = <<>>
  /\ measure' = [measure EXCEPT !.results =
       <<[similarity |-> calculateNameSimilarity(measure.name1, measure.name2),
          distance |-> levenshteinDistance(measure.name1, measure.name2),
          swapped |-> levenshteinDistance(measure.name2, measure.name1),
          self |-> levenshteinDistance(measure.name1, measure.name1)]>>]
  /\ UNCHANGED <<clients, acts, active, intake, raises, ui, fetching, run, log, merges, refreshes>>

NextMatcher ==
  \/ Refresh(1)
  \/ LoadOk(1)
  \/ \E k \in 1..NumClients : handleMergeClients(1, k)
  \/ Measure

SpecMatcher == InitMatcher /\ [][NextMatcher]_vars

(***************************************************************************)
(* What the claims speak of.                                               *)
(***************************************************************************)
Ended(s) == log[s].outcome \in {"success", "error"}
Succeeded(s) == log[s].outcome = "success"

AbsorbedIds(s) == MemberIds(log[s].group) \ {log[s].primary}

\* The sum of the members' contact counts, member by member.
RECURSIVE ContactSum(_, _)
ContactSum(group, k) ==
  IF k = 0 THEN 0
  ELSE ContactSum(group, k - 1)
       + (IF group.clients[k].contacts = Null THEN 0 ELSE group.clients[k].contacts)

\* The tables a merge of `group` into `primary` is to leave, from the
\* tables it is run on.
MergedClients(table, group, primary) ==
  [x \in DOMAIN table \ (MemberIds(group) \ {primary}) |->
     IF x = primary
       THEN [table[x] EXCEPT !.contacts = ContactSum(group, Len(group.clients))]
       ELSE table[x]]

MergedActs(interactions, group, primary) ==
  [a \in DOMAIN interactions |->
     IF interactions[a] \in MemberIds(group) \ {primary}
       THEN primary ELSE interactions[a]]

\* The calls of a merge in the order of the group's list: the
\* non-survivors' reassignments, the update, the non-survivors' deletions.
RECURSIVE NonSurvivors(_, _, _)
NonSurvivors(group, primary, k) ==
  IF k > Len(group.clients) THEN <<>>
  ELSE (IF group.clients[k].id = primary THEN <<>> ELSE <<group.clients[k].id>>)
       \o NonSurvivors(group, primary, k + 1)

PlannedCalls(group, primary) ==
  LET ids == NonSurvivors(group, primary, 1)
  IN [k \in 1..Len(ids) |-> <<"reassign", ids[k]>>]
     \o <<<<"update", primary>>>>
     \o [k \in 1..Len(ids) |-> <<"delete", ids[k]>>]

\* The step on which session s's executeMerge reaches its success report.
ReportsSuccess(s) == ~Succeeded(s) /\ Succeeded(s)'

(***************************************************************************)
(* C1: on the step on which a merge reaches its success report, no         *)
(* interaction's client_id is the id of a client that this merge deleted.  *)
(***************************************************************************)
C1_NoActivityOnClientsDeletedByMerge ==
  [][\A s \in Sessions :
       ReportsSuccess(s) =>
         \A a \in DOMAIN acts' : acts'[a] \notin log'[s].deleted]_vars

(***************************************************************************)
(* C2: in every state, also after a storage call of a merge has failed,    *)
(* every interaction's client_id is the id of a stored client, and no      *)
(* interaction refers to a client a merge has deleted.                     *)
(***************************************************************************)
C2_IntegrityInEveryState ==
  /\ \A a \in DOMAIN acts : acts[a] \in DOMAIN clients
  /\ \A s \in Sessions : \A a \in DOMAIN acts : acts[a] \notin log[s].deleted

(***************************************************************************)
(* C3: when executeMerge has ended, the tables are either the tables as    *)
(* they were when it began or those tables with the whole merge applied.   *)
(***************************************************************************)
C3_AllOrNothing ==
  \A s \in Sessions :
    Ended(s) =>
      \/ clients = log[s].preClients /\ acts = log[s].preActs
      \/ /\ clients = MergedClients(log[s].preClients, log[s].group, log[s].primary)
         /\ acts = MergedActs(log[s].preActs, log[s].group, log[s].primary)

(***************************************************************************)
(* C4: a merge that ended on a failed reassignment or a failed count       *)
(* update has deleted no client, and a delete call is issued only after    *)
(* every non-survivor's reassignment and the count update have succeeded.  *)
(***************************************************************************)
C4_DeletesOnlyAfterReassignAndCount ==
  \A s \in Sessions :
    /\ (log[s].outcome = "error" /\ log[s].failed \in {"reassign", "update"}) =>
         log[s].deleted = {}
    /\ \A k \in 1..Len(log[s].calls) :
         log[s].calls[k][1] = "delete" =>
           /\ \A d \in AbsorbedIds(s) :
                \E j \in 1..(k - 1) : log[s].calls[j] = <<"reassign", d, TRUE>>
           /\ \E j \in 1..(k - 1) : log[s].calls[j] = <<"update", log[s].primary, TRUE>>

\* A merge ended on a failed count update after its reassignments.
C4_Witness ==
  \E s \in Sessions :
    /\ log[s].outcome = "error" /\ log[s].failed = "update"
    /\ Len(log[s].calls) > 2

(***************************************************************************)
(* C5: two merges whose groups share a client id are never both between    *)
(* their first and their last storage call.                                *)
(***************************************************************************)
InMerge(s) == run[s].pc # "idle" /\ log[s].calls # <<>>

C5_OverlappingMergesExclude ==
  \A s, t \in Sessions :
    (s # t /\ InMerge(s) /\ InMerge(t)) =>
      MemberIds(run[s].group) \cap MemberIds(run[t].group) = {}

(***************************************************************************)
(* C6: on the step on which a merge reaches its success report, the        *)
(* survivor, where it is stored, has as its contacts the sum of the        *)
(* contacts of every member of the group, the survivor included.           *)
(***************************************************************************)
C6_SurvivorCountIsGroupSum ==
  [][\A s \in Sessions :
       (ReportsSuccess(s) /\ log'[s].primary \in DOMAIN clients') =>
         clients'[log'[s].primary].contacts
           = ContactSum(log'[s].group, Len(log'[s].group.clients))]_vars

(***************************************************************************)
(* C7: when a merge has reported success, no non-survivor of the group is  *)
(* stored, the survivor is stored, and every interaction that referred to  *)
(* a member of the group when the merge began refers to the survivor.      *)
(***************************************************************************)
C7_MergePostcondition ==
  \A s \in Sessions :
    Succeeded(s) =>
      /\ AbsorbedIds(s) \cap DOMAIN clients = {}
      /\ log[s].primary \in DOMAIN clients
      /\ \A a \in DOMAIN acts :
           log[s].preActs[a] \in MemberIds(log[s].group) => acts[a] = log[s].primary

(***************************************************************************)
(* C8: a merge of the members and the survivor of the successful merge     *)
(* before it leaves both tables as that merge left them, at every step and *)
(* whether it succeeds or fails.                                           *)
(***************************************************************************)
C8_RepeatedMergeChangesNothing ==
  \A s \in Sessions :
    log[s].repeat => clients = log[s].preClients /\ acts = log[s].preActs

(***************************************************************************)
(* C9: a merge issues its calls in the order of the group's list in each   *)
(* phase, and a merge that succeeds, on the first attempt or on a retry    *)
(* after failed attempts, leaves the tables an uninterrupted merge of the  *)
(* tables before the first attempt leaves.                                 *)
(***************************************************************************)
C9_ListOrderAndRetryConverges ==
  \A s \in Sessions :
    /\ \A k \in 1..Len(log[s].calls) :
         /\ k <= Len(PlannedCalls(log[s].group, log[s].primary))
         /\ <<log[s].calls[k][1], log[s].calls[k][2]>>
              = PlannedCalls(log[s].group, log[s].primary)[k]
    /\ Succeeded(s) =>
         /\ clients = MergedClients(log[s].baseClients, log[s].baseGroup, log[s].primary)
         /\ acts = MergedActs(log[s].baseActs, log[s].baseGroup, log[s].primary)

(***************************************************************************)
(* C10: a merge whose survivor is not a member of the group, whose group   *)
(* has fewer than 2 members, or some member of whose group is not stored   *)
(* when it begins, ends in an error without having issued a storage call.  *)
(***************************************************************************)
ValidRequest(s) ==
  /\ log[s].primary \in MemberIds(log[s].group)
  /\ Len(log[s].group.clients) >= 2
  /\ MemberIds(log[s].group) \subseteq DOMAIN log[s].preClients

C10_InvalidRequestRejected ==
  \A s \in Sessions :
    (log[s].outcome # "none" /\ ~ValidRequest(s)) =>
      log[s].outcome = "error" /\ log[s].calls = <<>>

\* The step on which a storage call of session s's merge returns an error.
StorageSteps == {"reassign", "update", "delete"}
CallFails(s) ==
  /\ log[s].outcome = "running"
  /\ log'[s].outcome = "error" /\ log'[s].failed \in StorageSteps

\* The pieces of an error text.
Names(text, piece) == \E k \in DOMAIN text : text[k] = piece

(***************************************************************************)
(* C11: on the step on which a storage call of a merge fails, the error    *)
(* text is set, and it names the step that failed and the member whose     *)
(* call failed.                                                            *)
(***************************************************************************)
C11_ErrorNamesStepAndMember ==
  [][\A s \in Sessions :
       CallFails(s) =>
         LET failedCall == log'[s].calls[Len(log'[s].calls)]
         IN /\ ui'[s].error # <<>>
            /\ Names(ui'[s].error, log'[s].failed)
            /\ Names(ui'[s].error, ToString(failedCall[2]))]_vars

(***************************************************************************)
(* C12: a storage call of a merge that failed is the last call of that     *)
(* merge, and the merge has ended with the outcome error, not success.     *)
(***************************************************************************)
C12_NoCallAfterFailedCall ==
  \A s \in Sessions :
    \A k \in 1..Len(log[s].calls) :
      log[s].calls[k][3] = FALSE =>
        /\ k = Len(log[s].calls)
        /\ log[s].outcome = "error"
        /\ run[s].pc = "idle" /\ ~ui[s].merging

\* A merge ended on a failed deletion after its reassignments and its
\* count update had succeeded.
C12_Witness ==
  \E s \in Sessions :
    /\ log[s].outcome = "error" /\ log[s].failed = "delete"
    /\ Len(log[s].calls) > 2

\* The step on which the list is loaded again after Refresh.
LoadsAgain(s) ==
  /\ refreshes = MaxRefresh /\ fetching[s] = 1 /\ fetching'[s] = 0
  /\ ~ui'[s].loading

Listed(s) == s \in active /\ ~ui[s].loading /\ measure = NoMeasure
Rows == FetchAllClients(clients)

\* Greedy grouping, stated by positions in the scanned rows: GroupAt is
\* the set of positions of the group that position a anchors (empty if it
\* anchors none), ClaimedBefore the positions that the groups anchored
\* before position i have claimed.
RECURSIVE GroupAt(_, _), ClaimedBefore(_, _)
GroupAt(rows, a) ==
  IF a \in ClaimedBefore(rows, a) THEN {}
  ELSE LET joining == {x \in (a + 1)..Len(rows) :
                         /\ x \notin ClaimedBefore(rows, a)
                         /\ isDuplicate(rows[a], rows[x])}
       IN IF joining = {} THEN {} ELSE {a} \cup joining

ClaimedBefore(rows, i) == UNION {GroupAt(rows, a) : a \in 1..(i - 1)}

RowsAt(rows, positions) ==
  LET RECURSIVE From(_)
      From(k) == IF k > Len(rows) THEN <<>>
                 ELSE (IF k \in positions THEN <<rows[k]>> ELSE <<>>) \o From(k + 1)
  IN From(1)

(***************************************************************************)
(* C14: the groups of a loaded list are, for every position a of the rows  *)
(* that no earlier group has claimed and that has an unclaimed duplicate   *)
(* after it, the row at a followed by exactly the unclaimed rows after a   *)
(* that are duplicates of the row at a, and no other groups.               *)
(***************************************************************************)
C14_GroupsAreGreedyByAnchor ==
  \A s \in Sessions :
    Listed(s) =>
      {<<ui[s].duplicateGroups[g].id, ui[s].duplicateGroups[g].clients>> :
          g \in 1..Len(ui[s].duplicateGroups)}
        = {<<a - 1, RowsAt(Rows, GroupAt(Rows, a))>> :
             a \in {x \in 1..Len(Rows) : GroupAt(Rows, x) # {}}}

\* A row after the anchor is a duplicate of a member of the group, but not
\* of the anchor, and is not in the group.
C14_Witness ==
  /\ Listed(1)
  /\ \E g \in 1..Len(ui[1].duplicateGroups) :
       LET members == ui[1].duplicateGroups[g].clients
       IN \E x \in 1..Len(Rows) :
            /\ \A k \in 1..Len(members) : members[k] # Rows[x]
            /\ Rows[x].created_at < members[1].created_at
            /\ ~isDuplicate(members[1], Rows[x])
            /\ \E k \in 2..Len(members) : isDuplicate(members[k], Rows[x])

\* The four conditions of a duplicate pair.
NormalName(c) == trim(toLowerCase(FullName(c)))
NormalAka(c) == trim(toLowerCase(c.aka))
HasAka(c) == c.aka # <<>> /\ c.aka # Undefined
SameNonEmpty(x, y) == x = y /\ x # ""

SameName(a, b) == NormalName(a) = NormalName(b)
SameAka(a, b) == HasAka(a) /\ HasAka(b) /\ NormalAka(a) = NormalAka(b)
NameIsAka(a, b) ==
  \/ HasAka(b) /\ NormalName(a) = NormalAka(b)
  \/ HasAka(a) /\ NormalName(b) = NormalAka(a)
SimilarWithDemographics(a, b) ==
  LET similarity == calculateNameSimilarity(NormalName(a), NormalName(b))
  IN /\ 10 * similarity[1] > 8 * similarity[2]
     /\ \/ SameNonEmpty(a.age, b.age)
        \/ SameNonEmpty(a.gender, b.gender)
        \/ SameNonEmpty(a.ethnicity, b.ethnicity)

(***************************************************************************)
(* C15: two fetched rows are grouped as duplicates exactly when their      *)
(* trimmed lower-cased names are equal, or both have an alias and the      *)
(* trimmed lower-cased aliases are equal, or the name of one is the alias  *)
(* of the other, or the name similarity is above 0.8 and an age, gender or *)
(* ethnicity is non-empty and equal on both.                               *)
(***************************************************************************)
C15_DuplicateExactlyOnFourConditions ==
  \A s \in Sessions :
    (Listed(s) /\ Len(Rows) = 2) =>
      (ui[s].duplicateGroups # <<>>
         <=> \/ SameName(Rows[1], Rows[2])
             \/ SameAka(Rows[1], Rows[2])
             \/ NameIsAka(Rows[1], Rows[2])
             \/ SimilarWithDemographics(Rows[1], Rows[2]))

\* Two rows grouped on the fourth condition alone.
C15_Witness ==
  /\ Listed(1) /\ Len(Rows) = 2
  /\ ui[1].duplicateGroups # <<>>
  /\ ~SameName(Rows[1], Rows[2]) /\ ~SameAka(Rows[1], Rows[2])
  /\ ~NameIsAka(Rows[1], Rows[2])
  /\ SameNonEmpty(Rows[1].age, Rows[2].age)

\* The edit distance with unit costs, by its recurrence on the first
\* characters.
RECURSIVE EditDistance(_, _)
EditDistance(a, b) ==
  IF a = <<>> THEN Len(b)
  ELSE IF b = <<>> THEN Len(a)
  ELSE Min2(EditDistance(Tail(a), Tail(b)) + (IF Head(a) = Head(b) THEN 0 ELSE 1),
            Min2(EditDistance(Tail(a), b) + 1, EditDistance(a, Tail(b)) + 1))

Measured == measure.results # <<>>
Longer == IF Len(measure.name1) > Len(measure.name2) THEN measure.name1 ELSE measure.name2
Shorter == IF Len(measure.name1) > Len(measure.name2) THEN measure.name2 ELSE measure.name1
SameLength == Len(measure.name1) = Len(measure.name2) /\ measure.name1 # <<>>
NoSharedPosition ==
  \A i \in 1..Len(measure.name1) : measure.name1[i] # measure.name2[i]
NoCommonCharacter ==
  \A i \in 1..Len(measure.name1) : \A j \in 1..Len(measure.name2) :
    measure.name1[i] # measure.name2[j]

\* The quotient, its value on identical strings and its range.
SimilarityIsQuotient ==
  LET similarity == measure.results[1].similarity
  IN /\ Longer # <<>> =>
          similarity = <<Len(Longer) - EditDistance(Longer, Shorter), Len(Longer)>>
     /\ measure.name1 = measure.name2 => similarity[1] = similarity[2]
     /\ similarity[2] > 0
     /\ 0 <= similarity[1] /\ similarity[1] <= similarity[2]

(***************************************************************************)
(* C16, as stated: the similarity is (L - editDistance(longer, shorter))   *)
(* / L, 1 for identical strings, between 0 and 1, and 0 for two strings of *)
(* equal length that have different characters at every position.         *)
(***************************************************************************)
C16_ZeroWhenNoPositionShared ==
  Measured =>
    /\ SimilarityIsQuotient
    /\ (SameLength /\ NoSharedPosition) => measure.results[1].similarity[1] = 0

(***************************************************************************)
(* C16, amended: the similarity is (L - editDistance(longer, shorter)) /   *)
(* L, 1 for identical strings, between 0 and 1, and 0 for two non-empty    *)
(* strings of equal length that have no character in common.               *)
(***************************************************************************)
C16_ZeroWhenNoCharacterShared ==
  Measured =>
    /\ SimilarityIsQuotient
    /\ (SameLength /\ NoCommonCharacter) => measure.results[1].similarity[1] = 0

\* Two strings of the greatest length with no character in common.
C16_Witness ==
  /\ Measured /\ SameLength /\ NoCommonCharacter
  /\ Len(measure.name1) = MaxNameLen
  /\ measure.results[1].similarity = <<0, MaxNameLen>>

(***************************************************************************)
(* C17: levenshteinDistance(a, b) = levenshteinDistance(b, a),             *)
(* levenshteinDistance(a, a) = 0, and the value is the edit distance with  *)
(* unit costs for insertion, deletion and substitution.                    *)
(***************************************************************************)
C17_DistanceIsSymmetricEditDistance ==
  Measured =>
    /\ measure.results[1].distance = measure.results[1].swapped
    /\ measure.results[1].self = 0
    /\ measure.results[1].distance = EditDistance(measure.name1, measure.name2)

\* Two strings of different lengths at distance 3.
C17_Witness ==
  /\ Measured
  /\ Len(measure.name1) < Len(measure.name2) /\ measure.name1 # <<>>
  /\ measure.results[1].distance = 3

\* The first two members of a group, and what the score and the reason
\* are said to look at.
First(g) == g.clients[1]
Second(g) == g.clients[2]
LowerName(c) == toLowerCase(FullName(c))
Points(condition, points) == IF condition THEN points ELSE 0
Contacts(c) == IF c.contacts = Null THEN 0 ELSE c.contacts
Distance(x, y) == IF x > y THEN x - y ELSE y - x

StatedScore(a, b) ==
  LET sum == Points(LowerName(a) = LowerName(b), 100)
           + Points(SameNonEmpty(a.age, b.age), 20)
           + Points(SameNonEmpty(a.gender, b.gender), 15)
           + Points(SameNonEmpty(a.ethnicity, b.ethnicity), 15)
           + Points(SameNonEmpty(a.height, b.height), 10)
           - Distance(Contacts(a), Contacts(b))
  IN IF sum < 0 THEN 0 ELSE sum

(***************************************************************************)
(* C18: the score of every listed group is, for its first two members,     *)
(* 100 if the lower-cased full names are equal, plus 20, 15, 15 and 10 for *)
(* an equal non-empty age, gender, ethnicity and height, minus the         *)
(* distance of the two contact counts, and 0 if that is negative.          *)
(***************************************************************************)
C18_ScoreOfFirstTwoMembers ==
  \A s \in Sessions :
    Listed(s) =>
      \A g \in 1..Len(ui[s].duplicateGroups) :
        LET group == ui[s].duplicateGroups[g]
        IN /\ group.score = StatedScore(First(group), Second(group))
           /\ group.score >= 0

\* Two rows of one name with 2 and 5 contacts score 97, whatever the
\* third member of their group has.
C18_Witness ==
  /\ Listed(1)
  /\ \E g \in 1..Len(ui[1].duplicateGroups) :
       LET group == ui[1].duplicateGroups[g]
       IN /\ Len(group.clients) = 3
          /\ First(group).contacts = 2 /\ Second(group).contacts = 5
          /\ group.clients[3].contacts = 2
          /\ group.score = 97

\* The reason of the code under the name the taxonomy gives it.
ReasonKind(reason) ==
  CASE reason = "Exact name match" -> "exact name match"
    [] reason = "Matching AKA" -> "matching AKA"
    [] reason = "Similar name + demographics" -> "similar name + demographics"
    [] OTHER -> "none"

StatedReason(a, b) ==
  IF LowerName(a) = LowerName(b) THEN "exact name match"
  ELSE IF HasAka(a) /\ HasAka(b) /\ toLowerCase(a.aka) = toLowerCase(b.aka)
    THEN "matching AKA"
    ELSE "similar name + demographics"

(***************************************************************************)
(* C19: the reason of every listed group is, for its first two members,    *)
(* exact name match if the lower-cased full names are equal, else matching *)
(* AKA if both have an alias and the lower-cased aliases are equal, else   *)
(* similar name + demographics; it is one of the three.                    *)
(***************************************************************************)
C19_ReasonInOrder ==
  \A s \in Sessions :
    Listed(s) =>
      \A g \in 1..Len(ui[s].duplicateGroups) :
        LET group == ui[s].duplicateGroups[g]
        IN /\ ReasonKind(group.reason) = StatedReason(First(group), Second(group))
           /\ ReasonKind(group.reason) # "none"

\* The first two members have one name and one alias: the name decides.
C19_Witness ==
  /\ Listed(1)
  /\ \E g \in 1..Len(ui[1].duplicateGroups) :
       LET group == ui[1].duplicateGroups[g]
       IN /\ LowerName(First(group)) = LowerName(Second(group))
          /\ HasAka(First(group)) /\ First(group).aka = Second(group).aka
          /\ group.reason = "Exact name match"

(***************************************************************************)
(* C20: in a listed sequence of groups no group has a smaller score than a *)
(* group after it, and of two groups of equal score the one whose anchor   *)
(* comes first in the rows is first.                                       *)
(***************************************************************************)
C20_SortedByScoreKeepingTies ==
  \A s \in Sessions :
    Listed(s) =>
      \A i, j \in 1..Len(ui[s].duplicateGroups) :
        i < j =>
          /\ ui[s].duplicateGroups[i].score >= ui[s].duplicateGroups[j].score
          /\ ui[s].duplicateGroups[i].score = ui[s].duplicateGroups[j].score
               => ui[s].duplicateGroups[i].id < ui[s].duplicateGroups[j].id

\* Two groups of equal score are listed.
C20_Witness ==
  /\ Listed(1) /\ Len(ui[1].duplicateGroups) = 2
  /\ ui[1].duplicateGroups[1].score = ui[1].duplicateGroups[2].score
  /\ ui[1].duplicateGroups[1].id < ui[1].duplicateGroups[2].id

(***************************************************************************)
(* C21, as stated: for the two records Jon Smyth and John Smith, both of   *)
(* age 30 and with one contact, the name similarity exceeds 0.8 and the    *)
(* list has one group holding both records, with the reason "similar name  *)
(* + demographics" and the score 20.                                       *)
(***************************************************************************)
JonAndJohnMeasured ==
  /\ Measured
  /\ measure.name1 = NormalName(JonSmyth) /\ measure.name2 = NormalName(JohnSmith)
JonAndJohnListed(s) == Listed(s) /\ Rows = JonAndJohn

C21_JonAndJohnAreGrouped ==
  /\ JonAndJohnMeasured =>
       10 * measure.results[1].similarity[1] > 8 * measure.results[1].similarity[2]
  /\ \A s \in Sessions :
       JonAndJohnListed(s) =>
         /\ Len(ui[s].duplicateGroups) = 1
         /\ ui[s].duplicateGroups[1].clients = JonAndJohn
         /\ ui[s].duplicateGroups[1].reason = "Similar name + demographics"
         /\ ui[s].duplicateGroups[1].score = 20

(***************************************************************************)
(* C21, amended: for the two records Jon Smyth and John Smith, both of age *)
(* 30 and with one contact, the edit distance of the names is 2 and the    *)
(* name similarity is 8/10, which is 0.8 and does not exceed it, and the   *)
(* list has no group.                                                      *)
(***************************************************************************)
C21_JonAndJohnAreNotGrouped ==
  /\ JonAndJohnMeasured =>
       /\ measure.results[1].distance = 2
       /\ measure.results[1].similarity = <<8, 10>>
  /\ \A s \in Sessions :
       JonAndJohnListed(s) => ui[s].duplicateGroups = <<>>

\* The list of the two records has been computed.
C21_Witness == JonAndJohnListed(1) /\ fetching[1] = 0

(***************************************************************************)
(* C22: the list computed from an empty table is empty, and whatever the   *)
(* stored rows are, rows with empty names and rows with an empty or a      *)
(* missing alias among them, computing the list raises no error: no error  *)
(* is shown and the list is published.                                     *)
(***************************************************************************)
C22_EmptyListAndNoError ==
  \A s \in Sessions :
    /\ ui[s].error = <<>>
    /\ (Listed(s) /\ Rows = <<>>) => ui[s].duplicateGroups = <<>>
    /\ (Listed(s) /\ fetching[s] = 0) => ~findDuplicatesThrows(Rows)

\* The list was computed from a row with an empty name and a missing
\* alias and a row that has an alias.
C22_Witness ==
  /\ Listed(1) /\ fetching[1] = 0 /\ Len(Rows) = 2
  /\ Rows[1].first_name = <<>> /\ Rows[1].last_name = <<>>
  /\ Rows[1].aka = Undefined /\ HasAka(Rows[2])

(***************************************************************************)
(* C23: when a group is opened in the merge dialog, the primary client     *)
(* chosen by default is the member with the most contacts, a missing count *)
(* taken as 0, and of the members that have the most it is the one that    *)
(* comes first in the group's list of members.                             *)
(***************************************************************************)
FirstWithMostContacts(members) ==
  CHOOSE k \in 1..Len(members) :
    /\ \A j \in 1..Len(members) : Contacts(members[j]) <= Contacts(members[k])
    /\ \A j \in 1..(k - 1) : Contacts(members[j]) < Contacts(members[k])

C23_DefaultPrimaryIsFirstWithMostContacts ==
  \A s \in Sessions :
    ui[s].mergeDialog =>
      LET members == ui[s].selectedGroup.clients
      IN ui[s].primaryClient = members[FirstWithMostContacts(members)].id

\* The dialog is open on a group whose second and a later member have the
\* most contacts.
C23_Witness ==
  /\ ui[1].mergeDialog
  /\ LET members == ui[1].selectedGroup.clients
     IN /\ Len(members) >= 3
        /\ FirstWithMostContacts(members) = 2
        /\ Contacts(members[3]) = Contacts(members[2])
        /\ ui[1].primaryClient = members[2].id

(***************************************************************************)
(* C24: a call of loadDuplicates ends in one of two ways.  Either the      *)
(* fetch succeeded, and the list computed from the fetched rows is         *)
(* published and no error is reported; or the fetch failed, and an error   *)
(* that says the clients could not be loaded is reported and the list      *)
(* published before is left as it was.                                     *)
(***************************************************************************)
LoadEnds(s) == fetching'[s] < fetching[s]
LoadFailureShown(s) ==
  ui[s].error # <<>> /\ ui[s].error[1] = "Failed to load clients: "

C24_FailedFetchLeavesList ==
  [][\A s \in Sessions :
       LoadEnds(s) =>
         \/ /\ ui'[s].duplicateGroups = findDuplicates(FetchAllClients(clients))
            /\ ui'[s].error = ui[s].error
            /\ ~ui'[s].loading
         \/ /\ ui'[s].duplicateGroups = ui[s].duplicateGroups
            /\ ui'[s].error # <<>>
            /\ ui'[s].error[1] = "Failed to load clients: "
            /\ ui'[s].error[2] \in ErrorMessages
            /\ ~ui'[s].loading]_vars

\* A fetch has failed and the list shown is one published before it,
\* which is not the list of the stored rows.
C24_Witness ==
  /\ LoadFailureShown(1) /\ Visible(1) /\ fetching[1] = 0
  /\ ui[1].duplicateGroups # <<>>
  /\ ui[1].duplicateGroups # findDuplicates(FetchAllClients(clients))

(***************************************************************************)
(* C25: the stored contact count of a client is never negative, and as     *)
(* long as the client is stored no step lowers it, whatever merges run     *)
(* and whenever other writers raise contact counts in between.             *)
(***************************************************************************)
C25_ContactCountNeverDecreases ==
  [][\A id \in DOMAIN clients :
       /\ clients[id].contacts >= 0
       /\ id \in DOMAIN clients' =>
            /\ clients'[id].contacts >= clients[id].contacts
            /\ clients'[id].contacts >= 0]_vars

(***************************************************************************)
(* C29: when the intake form inserted its interaction for a client while   *)
(* a merge that deletes this client was between its first and its last     *)
(* storage call, then on the step on which that merge reaches its success  *)
(* report the interaction's client_id is the id of a stored client.        *)
(***************************************************************************)
C29_ActivityAppendedDuringMergeIsKept ==
  [][\A s \in Sessions :
       (ReportsSuccess(s) /\ intake.merge > 0 /\ intake.merge = merges) =>
         acts'[IntakeActId] \in DOMAIN clients']_vars

(***************************************************************************)
(* C26: a merge reports success only on the step that ends it, when every  *)
(* reassignment, the count update and every deletion of its plan has been  *)
(* issued and has succeeded; the success text is set on that step and on   *)
(* no other, nothing more is done by a merge that has reported; and the    *)
(* text gives the number of the group's members other than the primary    *)
(* and the primary's first and last name.                                  *)
(***************************************************************************)
AllSucceeded(planned) ==
  [k \in 1..Len(planned) |-> <<planned[k][1], planned[k][2], TRUE>>]

SurvivorRow(group, primary) ==
  group.clients[CHOOSE k \in 1..Len(group.clients) : group.clients[k].id = primary]

StatedSuccess(group, primary) ==
  LET absorbed == Cardinality(MemberIds(group) \ {primary})
  IN <<absorbed, IF absorbed > 1 THEN "s" ELSE "",
       SurvivorRow(group, primary).first_name, SurvivorRow(group, primary).last_name>>

C26_SuccessOnceAfterEveryCall ==
  [][\A s \in Sessions :
       /\ ReportsSuccess(s) =>
            /\ log'[s].calls = AllSucceeded(PlannedCalls(log'[s].group, log'[s].primary))
            /\ ui'[s].success = StatedSuccess(log'[s].group, log'[s].primary)
            /\ run'[s].pc = "idle" /\ ~ui'[s].merging
       /\ ui'[s].success # ui[s].success => ReportsSuccess(s)
       /\ (Succeeded(s) /\ Succeeded(s)') => log'[s] = log[s]]_vars

\* A merge of three members has reported success.
C26_Witness ==
  /\ Succeeded(1) /\ Len(log[1].calls) = 5
  /\ ui[1].success = StatedSuccess(log[1].group, log[1].primary)
  /\ ui[1].success[1] = 2

(***************************************************************************)
(* C27: in a list computed from rows with distinct ids, no id is in two    *)
(* groups, every group has at least two members, and the members of a      *)
(* group are rows of the input in the order of the input, the first of     *)
(* them being the anchor, the row at the position the group is named by.   *)
(***************************************************************************)
DistinctIds(rows) ==
  \A i, j \in 1..Len(rows) : rows[i].id = rows[j].id => i = j

PositionOf(rows, id) == CHOOSE i \in 1..Len(rows) : rows[i].id = id

C27_GroupsDisjointOrderedAnchorFirst ==
  \A s \in Sessions :
    (Listed(s) /\ DistinctIds(Rows)) =>
      LET groups == ui[s].duplicateGroups
      IN /\ \A g, h \in 1..Len(groups) :
              g # h => MemberIds(groups[g]) \cap MemberIds(groups[h]) = {}
         /\ \A g \in 1..Len(groups) :
              LET members == groups[g].clients
              IN /\ Len(members) >= 2
                 /\ \A k \in 1..Len(members) :
                      \E i \in 1..Len(Rows) : Rows[i] = members[k]
                 /\ \A k \in 1..(Len(members) - 1) :
                      PositionOf(Rows, members[k].id) < PositionOf(Rows, members[k + 1].id)
                 /\ members[1] = Rows[groups[g].id + 1]

\* Two groups whose members alternate in the rows.
C27_Witness ==
  /\ Listed(1) /\ Len(Rows) = 4 /\ Len(ui[1].duplicateGroups) = 2
  /\ \E g, h \in 1..2 :
       /\ MemberIds(ui[1].duplicateGroups[g]) = {Rows[1].id, Rows[3].id}
       /\ MemberIds(ui[1].duplicateGroups[h]) = {Rows[2].id, Rows[4].id}

(***************************************************************************)
(* C28: the reason of every listed group agrees with the condition on      *)
(* which its first two members are duplicates: it is exact name match      *)
(* whenever their trimmed lower-cased names are equal, it is matching AKA  *)
(* only when both have an alias and the trimmed lower-cased aliases are    *)
(* equal, and it is similar name + demographics only when the name         *)
(* similarity is above 0.8 and an age, gender or ethnicity is non-empty    *)
(* and equal on both.                                                      *)
(***************************************************************************)
C28_ReasonAgreesWithCondition ==
  \A s \in Sessions :
    Listed(s) =>
      \A g \in 1..Len(ui[s].duplicateGroups) :
        LET group == ui[s].duplicateGroups[g]
            a == First(group)
            b == Second(group)
        IN /\ SameName(a, b) => ReasonKind(group.reason) = "exact name match"
           /\ ReasonKind(group.reason) = "matching AKA" => SameAka(a, b)
           /\ ReasonKind(group.reason) = "similar name + demographics" =>
                SimilarWithDemographics(a, b)

(***************************************************************************)
(* C30: while a merge runs and after it has ended, the interactions are    *)
(* those that were stored when it began, none added and none removed; an   *)
(* interaction whose client was not a member of the group has the client   *)
(* it had, and one whose client was a member has a member; and every       *)
(* client that is not a member of the group is stored as it was.           *)
(***************************************************************************)
C30_MergeTouchesOnlyItsGroup ==
  \A s \in Sessions :
    log[s].outcome # "none" =>
      LET members == MemberIds(log[s].group)
      IN /\ DOMAIN acts = DOMAIN log[s].preActs
         /\ \A a \in DOMAIN acts :
              IF log[s].preActs[a] \in members
                THEN acts[a] \in members
                ELSE acts[a] = log[s].preActs[a]
         /\ \A id \in DOMAIN log[s].preClients :
              id \notin members =>
                id \in DOMAIN clients /\ clients[id] = log[s].preClients[id]

\* A merge has succeeded and has deleted a client, and a client outside
\* its group has an interaction.
C30_Witness ==
  /\ Succeeded(1) /\ log[1].deleted # {}
  /\ \E id \in DOMAIN clients :
       /\ id \notin MemberIds(log[1].group)
       /\ \E a \in DOMAIN acts : acts[a] = id
  /\ acts # log[1].preActs

=============================================================================
